---- MODULE Spec2Model ----
(***************************************************************************)
(* Bug-report intake tool (src/main.py): the session loop of main, the     *)
(* identifier allocator, the history sets, the tabular store (an in-memory *)
(* DataFrame loaded from and flushed to an xlsx file), the per-report      *)
(* markdown documents and the compiled pdf.                                *)
(*                                                                         *)
(* init_from_ini only reads the configuration and is left out: the author  *)
(* and the two paths are fixed.                                            *)
(*                                                                         *)
(* Texts are sequences of one-character strings; the non-ASCII literals of *)
(* the source are transliterated.  A missing cell value (pandas NaN) is   *)
(* the single value NaN.                                                   *)
(***************************************************************************)
EXTENDS Integers, Sequences, FiniteSets, TLC

VARIABLES
  pc,          \* position of the running process in main; "off": no process
  run,         \* number of processes started so far
  xlsx,        \* the store file on disk
  dir,         \* the output directory: a set of entries
  pdf,         \* all_bugs_report.pdf: the files compiled into it, in order
  df,          \* main's DataFrame: [index, rows]
  locations,   \* main's history set of the location column
  types,       \* main's history set of the type column
  next_id,     \* main's next_id
  bug_report,  \* the BugReport being built or persisted
  stdin,       \* the lines typed ahead for prompt_list (SpecList)
  result,      \* what prompt_list returned (SpecList)
  loaded,      \* history: the rows init_from_xlsx returned to this process
  completed,   \* history: the reports of the cycles this process completed
  issued,      \* history: the ids of the reports prompt_bug_report returned
  opened,      \* history: names of the documents this process opened to write
  interruptAt, \* history: where the KeyboardInterrupt main caught arrived
  finalLog     \* history: finalization steps this process ran to completion

vars == <<pc, run, xlsx, dir, pdf, df, locations, types, next_id, bug_report,
          stdin, result, loaded, completed, issued, opened, interruptAt,
          finalLog>>

----------------------------------------------------------------------------
(* Bounds of the model *)

MaxRuns == 2      \* processes started one after another
MaxId == 3        \* the session loop stops taking reports above this id
MaxSteps == 1     \* reproduction steps entered per report
MaxRows == 3      \* rows of a store handed to generate_next_id
MaxEntries == 3   \* directory entries handed to compile_to_pdf_report

----------------------------------------------------------------------------
(* Texts *)

UNSET == <<"unset">>
NaN == <<"nan">>

\* The characters the model uses, in code-point order.
Alphabet ==
  <<"\n", " ", "-", ".", "0", "1", "2", "3", "4", "5", "6", "7", "8", "9",
    ">", "A", "B", "D", "N", "R", "_", "a", "b", "d", "e", "f", "g", "l",
    "m", "n", "o", "p", "r", "s", "t", "u", "x">>

Ord(c) == CHOOSE i \in 1..Len(Alphabet) : Alphabet[i] = c

Whitespace == {" ", "\n"}

RECURSIVE lstrip(_)
lstrip(s) ==
  IF s # <<>> /\ Head(s) \in Whitespace THEN lstrip(Tail(s)) ELSE s

RECURSIVE rstrip(_)
rstrip(s) ==
  IF s # <<>> /\ s[Len(s)] \in Whitespace
    THEN rstrip(SubSeq(s, 1, Len(s) - 1))
    ELSE s

\* str.strip()
strip(s) == rstrip(lstrip(s))

\* str < str of Python: lexicographic by code point
RECURSIVE StrLess(_, _)
StrLess(a, b) ==
  IF b = <<>> THEN FALSE
  ELSE IF a = <<>> THEN TRUE
  ELSE IF Head(a) # Head(b) THEN Ord(Head(a)) < Ord(Head(b))
  ELSE StrLess(Tail(a), Tail(b))

\* list.sort() of a list of str
RECURSIVE sorted(_)
sorted(S) ==
  IF S = {} THEN <<>>
  ELSE LET m == CHOOSE x \in S : \A y \in S \ {x} : StrLess(x, y)
       IN  <<m>> \o sorted(S \ {m})

\* str(n) of a non-negative int
RECURSIVE str(_)
str(n) ==
  IF n < 10 THEN <<Alphabet[5 + n]>>
  ELSE str(n \div 10) \o <<Alphabet[5 + (n % 10)]>>

\* sep.join(parts)
RECURSIVE join(_, _)
join(sep, parts) ==
  IF parts = <<>> THEN <<>>
  ELSE IF Len(parts) = 1 THEN parts[1]
  ELSE parts[1] \o sep \o join(sep, Tail(parts))

startswith(s, prefix) ==
  Len(s) >= Len(prefix) /\ SubSeq(s, 1, Len(prefix)) = prefix

Max(S) == CHOOSE x \in S : \A y \in S : y <= x

Range(f) == {f[i] : i \in DOMAIN f}

----------------------------------------------------------------------------
(* Classification registry: HumanReadableEnum and its three enumerations.  *)
(* An enumeration is the sequence of its members' labels (transliterated); *)
(* a member is its value, the position in declaration order starting at 1. *)

Priority ==
  <<"Ispravit nemedlenno", "Ispravit kak mozhno bystree",
    "Ispravit k relizu", "Ispravit, esli budet vremya">>

Severity ==
  <<"Blokiruyushchiy", "Kriticheskiy", "Vazhnyy", "Obychnyy", "Trivialnyy">>

Status == <<"Bag", "Incident", "Ficha">>

human_readable(enum, value) == enum[value]

----------------------------------------------------------------------------
(* BugReport *)

\* BugReport() with id and author assigned (lines 187-189); creation_datetime
\* is the wall clock and is left out: nothing reads it back.
BugReport(id, author) ==
  [id |-> id, author |-> author, brief |-> UNSET, section |-> UNSET,
   type |-> UNSET, expected |-> UNSET, actual |-> UNSET,
   reproduction_steps |-> <<>>, priority |-> 0, seveirty |-> 0, status |-> 0]

NoReport == BugReport(0, UNSET)

\* BugReport.__str__: the sections of the document, in order
BugReport__str__(r) ==
  [title |-> <<r.id, r.brief>>,
   priority |-> human_readable(Priority, r.priority),
   severity |-> human_readable(Severity, r.seveirty),
   status |-> human_readable(Status, r.status),
   section |-> r.section,
   type |-> r.type,
   author |-> r.author,
   expected |-> r.expected,
   actual |-> r.actual,
   steps |->
     IF Len(r.reproduction_steps) # 0
       THEN [i \in 1..Len(r.reproduction_steps) |->
               str(i) \o <<".", " ">> \o r.reproduction_steps[i]]
       ELSE <<<<"steps missing, tell">>, r.author>>]

generate_md_filename(r) ==
  <<"B", "R", "-">> \o str(r.id) \o <<"-">> \o str(r.priority)
    \o str(r.seveirty) \o <<".", "m", "d">>

----------------------------------------------------------------------------
(* Tabular store.  A DataFrame is [index, rows]: the row labels and the    *)
(* rows in position order.  The xlsx file holds the rows without labels.   *)

EmptyDataFrame == [index |-> <<>>, rows |-> <<>>]

\* the row of add_bug_report_to_data_frame (lines 118-131); the steps are
\* numbered from 0 by enumerate
ReportRow(r) ==
  [ID |-> r.id,
   author |-> r.author,
   priority |-> human_readable(Priority, r.priority),
   severity |-> human_readable(Severity, r.seveirty),
   status |-> human_readable(Status, r.status),
   section |-> r.section,
   type |-> r.type,
   brief |-> r.brief,
   expected |-> r.expected,
   actual |-> r.actual,
   steps |-> join(<<"\n">>,
               [i \in 1..Len(r.reproduction_steps) |->
                  str(i - 1) \o <<".", " ">> \o r.reproduction_steps[i]])]

\* df.loc[label] = row: overwrites the row labelled label when there is one,
\* and otherwise enlarges the frame by a row with that label at the end
LocSet(d, label, row) ==
  IF \E i \in 1..Len(d.index) : d.index[i] = label
    THEN [d EXCEPT !.rows =
            [i \in 1..Len(d.rows) |->
               IF d.index[i] = label THEN row ELSE d.rows[i]]]
    ELSE [index |-> Append(d.index, label), rows |-> Append(d.rows, row)]

\* a variant that takes the last label for the new row
add_bug_report_to_data_frame_last_label(d, r) ==
  LocSet(d, Len(d.index) - 1, ReportRow(r))

add_bug_report_to_data_frame(d, r) == LocSet(d, Len(d.index), ReportRow(r))

\* a variant that counts the rows
generate_next_id_count(d) ==
  LET ids == [i \in 1..Len(d.rows) |-> d.rows[i].ID]
  IN  Len(ids) + 1

generate_next_id(d) ==
  LET ids == [i \in 1..Len(d.rows) |-> d.rows[i].ID]
  IN  IF Len(ids) = 0 THEN 1 ELSE Max(Range(ids)) + 1

\* The strings pandas.read_excel reads as a missing value (its default
\* na_values) among the texts the model enters.
NaStrings == {<<>>, <<"N", "A">>}

\* a text cell as DataFrame.to_excel writes it: NaN becomes an empty cell
WriteCell(v) == IF v = NaN THEN <<>> ELSE v

\* a text cell as pandas.read_excel reads it
ReadCell(c) == IF c \in NaStrings THEN NaN ELSE c

TextColumns == {"author", "section", "type", "brief", "expected", "actual", "steps"}

WriteRow(row) ==
  [c \in DOMAIN row |->
     IF c \in TextColumns THEN WriteCell(row[c]) ELSE row[c]]

ReadRow(row) ==
  [c \in DOMAIN row |->
     IF c \in TextColumns THEN ReadCell(row[c]) ELSE row[c]]

\* df.to_excel(filename, index=False): the rows, without their labels
to_excel(d) == [i \in 1..Len(d.rows) |-> WriteRow(d.rows[i])]

\* pd.read_excel(xlsx): the rows under a fresh RangeIndex 0..N-1
read_excel(file) ==
  [index |-> [i \in 1..Len(file) |-> i - 1],
   rows |-> [i \in 1..Len(file) |-> ReadRow(file[i])]]

\* The store file: absent, or present with its rows, or present and unreadable
ABSENT == [exists |-> FALSE, readable |-> FALSE, rows |-> <<>>]
DAMAGED == [exists |-> TRUE, readable |-> FALSE, rows |-> <<>>]
File(rows) == [exists |-> TRUE, readable |-> TRUE, rows |-> rows]

init_from_xlsx(file) ==
  IF file.exists THEN read_excel(file.rows) ELSE EmptyDataFrame

write_to_xlsx_file(d) == File(to_excel(d))

\* set(df[column])
ColumnSet(d, column) == {d.rows[i][column] : i \in 1..Len(d.rows)}

IDs(rows) == [i \in 1..Len(rows) |-> rows[i].ID]

----------------------------------------------------------------------------
(* Prompts.  A prompt reads the lines the operator types, in order; it is  *)
(* blocked in input() when they run out before it can return.              *)

BLOCKED == <<"blocked">>
TYPE_ERROR == <<"TypeError">>
OTHER_VARIANT == << ">", ">", " ", "D", "r", "u", "g", "o", "e" >>

Returned(value, rest) == [returned |-> TRUE, value |-> value, rest |-> rest]
Blocked == [returned |-> FALSE, value |-> <<>>, rest |-> <<>>]

\* prompt(label, required, default_value): the value and the lines left
RECURSIVE prompt(_, _, _)
prompt(lines, required, default_value) ==
  IF lines = <<>> THEN Blocked
  ELSE LET value == strip(Head(lines))
       IN  IF required /\ value = <<>>
             THEN prompt(Tail(lines), required, default_value)
             ELSE Returned(IF value = <<>> /\ default_value # <<>>
                             THEN default_value ELSE value,
                           Tail(lines))

\* prompt_brief: the word-count warnings change nothing
prompt_brief(lines) == prompt(lines, TRUE, <<>>)

\* the while loop of prompt_list with ordered = True, result and first being
\* its locals
RECURSIVE prompt_list_loop(_, _, _)
prompt_list_loop(lines, result_, first_) ==
  LET p == prompt(lines, first_, <<>>)
  IN  IF ~p.returned THEN Blocked
      ELSE IF strip(p.value) # <<>>
        THEN prompt_list_loop(p.rest, Append(result_, strip(p.value)), FALSE)
        ELSE Returned(result_, p.rest)

prompt_list(lines) == prompt_list_loop(lines, <<>>, TRUE)

\* prompt_select: t[cutie.select(values)], selected being what select returns
prompt_select(source_enum, selected) == selected + 1

\* list.sort() raises TypeError when it compares a str with a float
sortable(old_variants) == NaN \notin old_variants \/ old_variants = {NaN}

\* the list t of prompt_with_old_variants (lines 266-268), t.sort() not
\* raising
variants(old_variants) == <<OTHER_VARIANT>> \o sorted(old_variants)

\* prompt_with_old_variants: the value returned, BLOCKED or TYPE_ERROR;
\* selected is what cutie.select returns
prompt_with_old_variants(old_variants, selected, lines) ==
  IF Cardinality(old_variants) = 0 THEN
    LET p == prompt(lines, TRUE, <<>>)
    IN  IF p.returned THEN p.value ELSE BLOCKED
  ELSE IF ~sortable(old_variants) THEN TYPE_ERROR
  ELSE IF selected = 0 THEN
    LET p == prompt(lines, TRUE, <<>>)
    IN  IF p.returned THEN p.value ELSE BLOCKED
  ELSE variants(old_variants)[selected + 1]

----------------------------------------------------------------------------
(* Output directory and compiler.  An entry is [name, isfile, text].       *)

NO_PDF == [exists |-> FALSE, sections |-> <<>>]
Pdf(sections) == [exists |-> TRUE, sections |-> sections]

Entry(name, isfile, text) == [name |-> name, isfile |-> isfile, text |-> text]

Names(d) == {e.name : e \in d}

\* os.path.splitext(file)[1]: from the last dot of the name, a leading dot
\* excepted
RECURSIVE splitext(_)
splitext(name) ==
  IF Len(name) <= 1 THEN <<>>
  ELSE IF name[Len(name)] = "." THEN <<".">>
  ELSE LET e == splitext(SubSeq(name, 1, Len(name) - 1))
       IN  IF e = <<>> THEN <<>> ELSE Append(e, name[Len(name)])

\* a variant of the test without the name prefix
Compiled_any_md(e) == e.isfile /\ splitext(e.name) = <<".", "m", "d">>

\* the test of line 108
Compiled(e) ==
  e.isfile /\ splitext(e.name) = <<".", "m", "d">>
    /\ startswith(e.name, <<"B", "R">>)

PdfName ==
  <<"a", "l", "l", "_", "b", "u", "g", "s", "_", "r", "e", "p", "o", "r", "t",
    ".", "p", "d", "f">>

\* os.listdir(output_md): the compiled pdf lies in the same directory
listdir(d, compiled) ==
  d \cup IF compiled.exists THEN {Entry(PdfName, TRUE, <<>>)} ELSE {}

\* compile_to_pdf_report: the sections of the pdf, one per file read, in
\* the order of sorted(os.listdir(output_md))
compile_to_pdf_report(d) ==
  LET names == sorted(Names(d))
      entry(n) == CHOOSE e \in d : e.name = n
      RECURSIVE sections(_)
      sections(ns) ==
        IF ns = <<>> THEN <<>>
        ELSE IF Compiled(entry(Head(ns)))
          THEN <<entry(Head(ns))>> \o sections(Tail(ns))
          ELSE sections(Tail(ns))
  IN  sections(names)

\* open(filename, 'w'): the file is created or truncated
open_w(d, name) == {e \in d : e.name # name} \cup {Entry(name, TRUE, <<>>)}

\* output.write(text) and the close of the with block
write(d, name, text) == {e \in d : e.name # name} \cup {Entry(name, TRUE, text)}

----------------------------------------------------------------------------
(* What the operator types and selects *)

AUTHOR == <<"A">>

SectionLines == {<<>>, <<" ", "a">>, <<"N", "A">>}
TextLines == {<<>>, <<"x", " ">>}
StepLines == {<<>>, <<"s">>}

\* the sequences of at most n lines drawn from L
LineSeqs(L, n) == UNION {[1..k -> L] : k \in 0..n}

\* what cutie.select can return for a list of history values
Selections == 0..Cardinality({strip(l) : l \in SectionLines} \cup {NaN})

PriorityPicks == {1}
SeverityPicks == {2}
StatusPicks == {0}

----------------------------------------------------------------------------
(* main: the session loop *)

TryBody ==
  {"alloc", "brief", "section", "type", "expected", "actual", "steps",
   "priority", "severity", "status", "hist", "append", "write_md",
   "write_body", "print"}

Prompting ==
  {"brief", "section", "type", "expected", "actual", "steps", "priority",
   "severity", "status"}

Init ==
  /\ pc = "off"
  /\ run = 0
  /\ xlsx = ABSENT
  /\ dir = {}
  /\ pdf = NO_PDF
  /\ df = EmptyDataFrame
  /\ locations = {}
  /\ types = {}
  /\ next_id = 0
  /\ bug_report = NoReport
  /\ stdin = <<>>
  /\ result = <<>>
  /\ loaded = <<>>
  /\ completed = <<>>
  /\ issued = {}
  /\ opened = {}
  /\ interruptAt = "none"
  /\ finalLog = <<>>

disk == <<xlsx, dir, pdf>>
memory == <<df, locations, types, next_id, bug_report>>
history == <<loaded, completed, issued, opened, interruptAt, finalLog>>
unused == <<stdin, result>>

\* the process ends: by returning from main or by an uncaught exception
Exit == pc' = "off"

\* lines 86-88 of a new process, the store file being readable
StartRun ==
  /\ pc = "off" /\ run < MaxRuns /\ xlsx # DAMAGED
  /\ run' = run + 1
  /\ df' = init_from_xlsx(xlsx)
  /\ locations' = ColumnSet(df', "section")
  /\ types' = ColumnSet(df', "type")
  /\ loaded' = df'.rows
  /\ completed' = <<>> /\ opened' = {} /\ interruptAt' = "none"
  /\ finalLog' = <<>>
  /\ pc' = "alloc"
  /\ UNCHANGED <<disk, next_id, bug_report, issued, unused>>

\* line 86 of a new process, pd.read_excel raising on an unreadable file
StartRunUnreadable ==
  /\ pc = "off" /\ run < MaxRuns /\ xlsx = DAMAGED
  /\ run' = run + 1
  /\ loaded' = <<>> /\ completed' = <<>> /\ opened' = {}
  /\ interruptAt' = "none" /\ finalLog' = <<>>
  /\ Exit
  /\ UNCHANGED <<disk, memory, issued, unused>>

\* line 91
Alloc ==
  /\ pc = "alloc"
  /\ generate_next_id(df) <= MaxId
  /\ next_id' = generate_next_id(df)
  /\ pc' = "brief"
  /\ UNCHANGED <<run, disk, df, locations, types, bug_report, history, unused>>

\* lines 187-192
Brief(lines) ==
  /\ pc = "brief"
  /\ prompt_brief(lines).returned
  /\ bug_report' =
       [BugReport(next_id, AUTHOR) EXCEPT !.brief = prompt_brief(lines).value]
  /\ pc' = "section"
  /\ UNCHANGED <<run, disk, df, locations, types, next_id, history, unused>>

\* lines 193 and 194: prompt_with_old_variants returns
OldVariants(field, old_variants, selected, lines, next) ==
  /\ pc = field
  /\ selected \in 0..Cardinality(old_variants)
  /\ prompt_with_old_variants(old_variants, selected, lines)
       \notin {BLOCKED, TYPE_ERROR}
  /\ bug_report' =
       [bug_report EXCEPT
          ![field] = prompt_with_old_variants(old_variants, selected, lines)]
  /\ pc' = next
  /\ UNCHANGED <<run, disk, df, locations, types, next_id, history, unused>>

\* the history set main passes for the field
old_variants_of(field) == IF field = "section" THEN locations ELSE types

\* lines 193 and 194: t.sort() raises TypeError, which main does not catch
OldVariantsTypeError ==
  /\ \E field \in {"section", "type"} :
       /\ pc = field
       /\ prompt_with_old_variants(old_variants_of(field), 0, <<>>) = TYPE_ERROR
  /\ Exit
  /\ UNCHANGED <<run, disk, memory, history, unused>>

PromptSection(selected, lines) ==
  OldVariants("section", locations, selected, lines, "type")

PromptType(selected, lines) ==
  OldVariants("type", types, selected, lines, "expected")

\* lines 195 and 196
PromptText(field, lines, next) ==
  /\ pc = field
  /\ prompt(lines, TRUE, <<>>).returned
  /\ bug_report' = [bug_report EXCEPT ![field] = prompt(lines, TRUE, <<>>).value]
  /\ pc' = next
  /\ UNCHANGED <<run, disk, df, locations, types, next_id, history, unused>>

PromptExpected(lines) == PromptText("expected", lines, "actual")

PromptActual(lines) == PromptText("actual", lines, "steps")

\* line 197
PromptSteps(lines) ==
  /\ pc = "steps"
  /\ prompt_list(lines).returned
  /\ bug_report' =
       [bug_report EXCEPT !.reproduction_steps = prompt_list(lines).value]
  /\ pc' = "priority"
  /\ UNCHANGED <<run, disk, df, locations, types, next_id, history, unused>>

\* lines 198 and 199
PromptPriority(selected) ==
  /\ pc = "priority"
  /\ bug_report' =
       [bug_report EXCEPT !.priority = prompt_select(Priority, selected)]
  /\ pc' = "severity"
  /\ UNCHANGED <<run, disk, df, locations, types, next_id, history, unused>>

PromptSeverity(selected) ==
  /\ pc = "severity"
  /\ bug_report' =
       [bug_report EXCEPT !.seveirty = prompt_select(Severity, selected)]
  /\ pc' = "status"
  /\ UNCHANGED <<run, disk, df, locations, types, next_id, history, unused>>

\* lines 200-201: prompt_bug_report returns the report
PromptStatus(selected) ==
  /\ pc = "status"
  /\ bug_report' =
       [bug_report EXCEPT !.status = prompt_select(Status, selected)]
  /\ issued' = issued \cup {bug_report.id}
  /\ pc' = "hist"
  /\ UNCHANGED <<run, disk, df, locations, types, next_id, unused,
                 loaded, completed, opened, interruptAt, finalLog>>

\* a variant that leaves out line 93
AddToHistoryTypesOnly ==
  /\ pc = "hist"
  /\ types' = types \cup {bug_report.type}
  /\ pc' = "append"
  /\ UNCHANGED <<run, disk, df, locations, next_id, bug_report, history,
                 unused>>

\* lines 93-94
AddToHistory ==
  /\ pc = "hist"
  /\ locations' = locations \cup {bug_report.section}
  /\ types' = types \cup {bug_report.type}
  /\ pc' = "append"
  /\ UNCHANGED <<run, disk, df, next_id, bug_report, history, unused>>

\* line 95
AppendRow ==
  /\ pc = "append"
  /\ df' = add_bug_report_to_data_frame(df, bug_report)
  /\ pc' = "write_md"
  /\ UNCHANGED <<run, disk, locations, types, next_id, bug_report, history,
                 unused>>

\* lines 205-206: the document is opened for writing
WriteOpen ==
  /\ pc = "write_md"
  /\ dir' = open_w(dir, generate_md_filename(bug_report))
  /\ opened' = opened \cup {generate_md_filename(bug_report)}
  /\ pc' = "write_body"
  /\ UNCHANGED <<run, xlsx, pdf, memory, loaded, completed, issued,
                 interruptAt, finalLog, unused>>

\* lines 207-208: the document is written and closed; the cycle is complete
WriteBody ==
  /\ pc = "write_body"
  /\ dir' = write(dir, generate_md_filename(bug_report),
                  BugReport__str__(bug_report))
  /\ completed' = Append(completed, bug_report)
  /\ pc' = "print"
  /\ UNCHANGED <<run, xlsx, pdf, memory, loaded, issued, opened,
                 interruptAt, finalLog, unused>>

\* lines 206-207: open or write raises OSError, which main does not catch
WriteFails ==
  /\ pc \in {"write_md", "write_body"}
  /\ Exit
  /\ UNCHANGED <<run, disk, memory, history, unused>>

\* line 97
PrintWritten ==
  /\ pc = "print"
  /\ pc' = "alloc"
  /\ UNCHANGED <<run, disk, memory, history, unused>>

\* a variant that keeps the report being prompted as a row
KeyboardInterruptKeepsPartial ==
  /\ pc \in TryBody
  /\ interruptAt' = pc
  /\ df' = IF pc \in Prompting
             THEN LocSet(df, Len(df.index),
                         ReportRow([BugReport(next_id, AUTHOR) EXCEPT
                                      !.priority = 1, !.seveirty = 1,
                                      !.status = 1]))
             ELSE df
  /\ pc' = "flush"
  /\ UNCHANGED <<run, disk, locations, types, next_id, bug_report, loaded,
                 completed, issued, opened, finalLog, unused>>

\* lines 98-99: KeyboardInterrupt raised inside the try block
KeyboardInterrupt ==
  /\ pc \in TryBody
  /\ interruptAt' = pc
  /\ pc' = "flush"
  /\ UNCHANGED <<run, disk, memory, loaded, completed, issued, opened,
                 finalLog, unused>>

\* line 100
Flush ==
  /\ pc = "flush"
  /\ xlsx' = write_to_xlsx_file(df)
  /\ finalLog' = Append(finalLog, "flush")
  /\ pc' = "compile"
  /\ UNCHANGED <<run, dir, pdf, memory, loaded, completed, issued, opened,
                 interruptAt, unused>>

\* line 100: df.to_excel raises OSError; the file is as it was or unreadable
FlushFails ==
  /\ pc = "flush"
  /\ xlsx' \in {xlsx, DAMAGED}
  /\ Exit
  /\ UNCHANGED <<run, dir, pdf, memory, history, unused>>

\* line 101
Compile ==
  /\ pc = "compile"
  /\ pdf' = Pdf(compile_to_pdf_report(listdir(dir, pdf)))
  /\ finalLog' = Append(finalLog, "compile")
  /\ Exit
  /\ UNCHANGED <<run, xlsx, dir, memory, loaded, completed, issued, opened,
                 interruptAt, unused>>

\* line 101: open, read or pdf.save raises
CompileFails ==
  /\ pc = "compile"
  /\ Exit
  /\ UNCHANGED <<run, disk, memory, history, unused>>

\* lines 100-101: KeyboardInterrupt raised outside the try block is not
\* caught; an interrupted to_excel leaves the file as it was or unreadable
KeyboardInterruptFinalizing ==
  /\ pc \in {"flush", "compile"}
  /\ xlsx' \in IF pc = "flush" THEN {xlsx, DAMAGED} ELSE {xlsx}
  /\ Exit
  /\ UNCHANGED <<run, dir, pdf, memory, history, unused>>

Next ==
  \/ StartRun
  \/ StartRunUnreadable
  \/ Alloc
  \/ \E lines \in LineSeqs(TextLines, 2) : Brief(lines)
  \/ \E selected \in Selections, lines \in LineSeqs(SectionLines, 2) :
       PromptSection(selected, lines)
  \/ \E selected \in Selections, lines \in LineSeqs(TextLines, 2) :
       PromptType(selected, lines)
  \/ OldVariantsTypeError
  \/ \E lines \in LineSeqs(TextLines, 2) : PromptExpected(lines)
  \/ \E lines \in LineSeqs(TextLines, 2) : PromptActual(lines)
  \/ \E lines \in LineSeqs(StepLines, 2) : PromptSteps(lines)
  \/ \E selected \in PriorityPicks : PromptPriority(selected)
  \/ \E selected \in SeverityPicks : PromptSeverity(selected)
  \/ \E selected \in StatusPicks : PromptStatus(selected)
  \/ AddToHistory
  \/ AppendRow
  \/ WriteOpen
  \/ WriteBody
  \/ WriteFails
  \/ PrintWritten
  \/ KeyboardInterrupt
  \/ Flush
  \/ KeyboardInterruptFinalizing
  \/ FlushFails
  \/ Compile
  \/ CompileFails

Spec == Init /\ [][Next]_vars

----------------------------------------------------------------------------
(* Properties of the session loop, checked under Spec *)

RowsOf(reports) == [i \in 1..Len(reports) |-> ReportRow(reports[i])]

IdsOf(reports) == [i \in 1..Len(reports) |-> reports[i].id]

NamesOf(reports) == {generate_md_filename(reports[i]) : i \in 1..Len(reports)}

Flushed == finalLog # <<>>

\* the rows past the loaded ones
Appended(rows) == SubSeq(rows, Len(loaded) + 1, Len(rows))

\* C1: every report created gets an id strictly greater than every id in
\* the store at its creation, and no id is given to two different reports,
\* over any sequence of runs, also after a failed document write or flush.
C1_IdsFreshAndNeverReused ==
  pc \in Prompting =>
    /\ \A i \in 1..Len(df.rows) : next_id > df.rows[i].ID
    /\ next_id \notin issued

\* C3: when the interrupt main catches arrives at a prompt of
\* prompt_bug_report, the report being prompted is discarded: the store
\* holds the loaded rows followed by the rows of the completed cycles and
\* nothing else, the only documents opened by this process are those of the
\* completed cycles, and that store is what the flush writes.
C3_InterruptedPromptDiscarded ==
  interruptAt \in Prompting =>
    /\ df.rows = loaded \o RowsOf(completed)
    /\ opened = NamesOf(completed)
    /\ Flushed => xlsx = write_to_xlsx_file(
                           [index |-> <<>>, rows |-> loaded \o RowsOf(completed)])

C3_Witness ==
  /\ interruptAt \in Prompting
  /\ Flushed
  /\ loaded # <<>>
  /\ completed # <<>>

\* C4: whenever the store has been flushed at the end of a session, the ids
\* of the rows this session appended to it are exactly the ids of the
\* documents this session wrote completely.
C4_FlushedStoreMatchesDocuments ==
  Flushed =>
    Range(IDs(Appended(xlsx.rows))) = Range(IdsOf(completed))

\* C5: once the interrupt has moved the session to finalization, the flush
\* runs to completion, then the compilation, then the process exits: the
\* compilation starts only after the flush, and a process that was
\* interrupted exits only after both.
C5_FinalizingRunsToCompletion ==
  /\ pc = "compile" => finalLog = <<"flush">>
  /\ (pc = "off" /\ interruptAt # "none") => finalLog = <<"flush", "compile">>

\* C6: add_bug_report_to_data_frame adds exactly one row, at the end, and
\* every row that was in the store keeps its content and its position.
C6_AppendKeepsPriorRows ==
  [][(pc = "append" /\ pc' = "write_md") =>
       /\ Len(df'.rows) = Len(df.rows) + 1
       /\ SubSeq(df'.rows, 1, Len(df.rows)) = df.rows
       /\ df'.rows[Len(df'.rows)] = ReportRow(bug_report)]_vars

C6_Witness ==
  /\ pc = "write_md"
  /\ loaded # <<>>
  /\ Len(df.rows) >= Len(loaded) + 2

\* C7: a session that started from N rows and completed k intake cycles
\* before the interrupt flushes a store that a fresh load reads back as the
\* N old rows followed by the k new rows in creation order.
C7_FlushedStoreReloads ==
  (interruptAt # "none" /\ Flushed) =>
    IDs(init_from_xlsx(xlsx).rows) = IDs(loaded) \o IdsOf(completed)

\* the values entered for the field in the cycles this session completed
Entered(field) == {completed[i][field] : i \in 1..Len(completed)}

\* the value of the field in the report being persisted, once lines 93-94
\* have run and until its cycle is complete
Persisting(field) ==
  IF pc \in {"append", "write_md", "write_body"}
    THEN {bug_report[field]} ELSE {}

----------------------------------------------------------------------------
(* generate_next_id on its own: any store of at most MaxRows rows, its ID  *)
(* column sparse and in any order                                          *)

IdValues == 1..(2 * MaxId)

RowWithId(id) ==
  ReportRow([BugReport(id, AUTHOR) EXCEPT
               !.priority = 1, !.seveirty = 1, !.status = 1])

FrameOfIds(ids) ==
  [index |-> [i \in 1..Len(ids) |-> i - 1],
   rows |-> [i \in 1..Len(ids) |-> RowWithId(ids[i])]]

InitAlloc ==
  /\ pc = "generate_next_id"
  /\ \E ids \in UNION {[1..n -> IdValues] : n \in 0..MaxRows} :
       df = FrameOfIds(ids)
  /\ run = 0 /\ xlsx = ABSENT /\ dir = {} /\ pdf = NO_PDF
  /\ locations = {} /\ types = {} /\ next_id = 0 /\ bug_report = NoReport
  /\ stdin = <<>> /\ result = <<>> /\ loaded = <<>> /\ completed = <<>>
  /\ issued = {} /\ opened = {} /\ interruptAt = "none" /\ finalLog = <<>>

GenerateNextId ==
  /\ pc = "generate_next_id"
  /\ next_id' = generate_next_id(df)
  /\ pc' = "generate_next_id_done"
  /\ UNCHANGED <<run, disk, df, locations, types, bug_report, history, unused>>

SpecAlloc == InitAlloc /\ [][GenerateNextId]_vars

\* C2: generate_next_id returns 1 for a store without rows, and for a
\* store with rows the maximum of its ID column plus one, whatever the
\* order of the rows and however sparse the ids.
C2_NextIdIsMaxPlusOne ==
  pc = "generate_next_id_done" =>
    IF Len(df.rows) = 0 THEN next_id = 1
    ELSE /\ \A i \in 1..Len(df.rows) : df.rows[i].ID < next_id
         /\ \E i \in 1..Len(df.rows) : df.rows[i].ID + 1 = next_id

C2_Witness ==
  /\ pc = "generate_next_id_done"
  /\ Len(df.rows) = 3
  /\ df.rows[1].ID > df.rows[2].ID + 1
  /\ df.rows[3].ID = df.rows[2].ID + 2

----------------------------------------------------------------------------
(* prompt_list on its own: the operator types up to MaxSteps + 2 lines     *)

ListLines == {<<>>, <<" ">>, <<"s">>, <<" ", "a", " ">>}

InitList ==
  /\ pc = "prompt_list"
  /\ stdin \in LineSeqs(ListLines, MaxSteps + 2)
  /\ result = <<>>
  /\ run = 0 /\ xlsx = ABSENT /\ dir = {} /\ pdf = NO_PDF
  /\ df = EmptyDataFrame /\ locations = {} /\ types = {} /\ next_id = 0
  /\ bug_report = NoReport /\ loaded = <<>> /\ completed = <<>>
  /\ issued = {} /\ opened = {} /\ interruptAt = "none" /\ finalLog = <<>>

\* prompt_list returns, leaving the lines it did not read
PromptList ==
  /\ pc = "prompt_list"
  /\ prompt_list(stdin).returned
  /\ result' = prompt_list(stdin).value
  /\ pc' = "prompt_list_done"
  /\ UNCHANGED <<run, disk, memory, history, stdin>>

SpecList == InitList /\ [][PromptList]_vars

\* C10: prompt_list accepts an empty sequence: blank text at the first step
\* prompt ends the list with zero steps, without a second prompt; and every
\* entry of a list it returns is non-empty text.
C10_BlankFirstStepGivesNoSteps ==
  pc = "prompt_list_done" =>
    /\ strip(stdin[1]) = <<>> => result = <<>>
    /\ \A i \in 1..Len(result) : result[i] # <<>>

----------------------------------------------------------------------------
(* The output directory and compile_to_pdf_report on their own: documents  *)
(* are rendered into the directory, the operator puts other entries there  *)
(* and removes entries, and the directory is compiled.                     *)

DocIds == {1, 2, 10}

SampleReport(id) ==
  [BugReport(id, AUTHOR) EXCEPT
     !.brief = <<"x">>, !.section = <<"a">>, !.type = <<"x">>,
     !.expected = <<"x">>, !.actual = <<"x">>,
     !.reproduction_steps = <<<<"s">>>>,
     !.priority = 2, !.seveirty = 3, !.status = 1]

NotesMd == <<"n", "o", "t", "e", "s", ".", "m", "d">>
BRxMd == <<"B", "R", "x", ".", "m", "d">>
BRTxt == <<"B", "R", "-", "1", "-", "2", "3", ".", "t", "x", "t">>
BRDirMd == <<"B", "R", "-", "d", ".", "m", "d">>

OtherEntries ==
  {Entry(NotesMd, TRUE, <<>>), Entry(BRxMd, TRUE, <<>>),
   Entry(BRTxt, TRUE, <<>>), Entry(BRDirMd, FALSE, <<>>)}

InitCompile ==
  /\ pc = "directory"
  /\ dir = {}
  /\ pdf = NO_PDF
  /\ run = 0 /\ xlsx = ABSENT
  /\ df = EmptyDataFrame /\ locations = {} /\ types = {} /\ next_id = 0
  /\ bug_report = NoReport /\ stdin = <<>> /\ result = <<>>
  /\ loaded = <<>> /\ completed = <<>>
  /\ issued = {} /\ opened = {} /\ interruptAt = "none" /\ finalLog = <<>>

\* write_to_md_file(bug_report, output_md)
write_to_md_file(d, r) ==
  write(open_w(d, generate_md_filename(r)), generate_md_filename(r),
        BugReport__str__(r))

RenderDocument(id) ==
  /\ pc \in {"directory", "compiled"}
  /\ dir' = write_to_md_file(dir, SampleReport(id))
  /\ Cardinality(dir') <= MaxEntries
  /\ pc' = "directory"
  /\ UNCHANGED <<run, xlsx, pdf, memory, history, unused>>

PutEntry(e) ==
  /\ pc \in {"directory", "compiled"}
  /\ e.name \notin Names(dir)
  /\ Cardinality(dir) < MaxEntries
  /\ dir' = dir \cup {e}
  /\ pc' = "directory"
  /\ UNCHANGED <<run, xlsx, pdf, memory, history, unused>>

RemoveEntry(e) ==
  /\ pc \in {"directory", "compiled"}
  /\ dir' = dir \ {e}
  /\ pc' = "directory"
  /\ UNCHANGED <<run, xlsx, pdf, memory, history, unused>>

CompileDirectory ==
  /\ pc = "directory"
  /\ pdf' = Pdf(compile_to_pdf_report(listdir(dir, pdf)))
  /\ pc' = "compiled"
  /\ UNCHANGED <<run, xlsx, dir, memory, history, unused>>

NextCompile ==
  \/ \E id \in DocIds : RenderDocument(id)
  \/ \E e \in OtherEntries : PutEntry(e)
  \/ \E e \in dir : RemoveEntry(e)
  \/ CompileDirectory

SpecCompile == InitCompile /\ [][NextCompile]_vars

Digits == {"0", "1", "2", "3", "4", "5", "6", "7", "8", "9"}

\* the name is BR-<id>-<priorityOrdinal><severityOrdinal>.md
MatchesConvention(name) ==
  LET n == Len(name)
  IN  /\ n >= 10
      /\ SubSeq(name, 1, 3) = <<"B", "R", "-">>
      /\ \A i \in 4..(n - 6) : name[i] \in Digits
      /\ name[4] # "0"
      /\ name[n - 5] = "-"
      /\ name[n - 4] \in {str(p)[1] : p \in 1..Len(Priority)}
      /\ name[n - 3] \in {str(v)[1] : v \in 1..Len(Severity)}
      /\ SubSeq(name, n - 2, n) = <<".", "m", "d">>

RenderedDocuments(d) == {e \in d : e.isfile /\ MatchesConvention(e.name)}

\* C9 as stated: the compiled pdf holds exactly the rendered documents in
\* the directory at compile time, the files named
\* BR-<id>-<priorityOrdinal><severityOrdinal>.md; no other file is included.
C9_CompilesExactlyRenderedDocuments ==
  pc = "compiled" => Range(pdf.sections) = RenderedDocuments(dir)

\* C9 as amended: the compiled pdf holds exactly the regular files in the
\* directory at compile time whose name starts with BR and ends with .md,
\* each once and with its text; every rendered document in the directory is
\* among them, and no directory and no file without that prefix or without
\* that extension is.
C9_CompilesBRMarkdownFiles ==
  pc = "compiled" =>
    /\ Range(pdf.sections) =
         {e \in dir :
            /\ e.isfile
            /\ Len(e.name) >= 5
            /\ SubSeq(e.name, 1, 2) = <<"B", "R">>
            /\ SubSeq(e.name, Len(e.name) - 2, Len(e.name)) = <<".", "m", "d">>}
    /\ Len(pdf.sections) = Cardinality(Range(pdf.sections))
    /\ RenderedDocuments(dir) \subseteq Range(pdf.sections)

C9_Witness ==
  /\ pc = "compiled"
  /\ \E e \in Range(pdf.sections) : MatchesConvention(e.name)
  /\ \E e \in Range(pdf.sections) : ~MatchesConvention(e.name)
  /\ \E e \in dir : e \notin Range(pdf.sections)

====
